---- MODULE Spec2Model ----
(***************************************************************************)
(* University recommendation service: the filter-then-rank core            *)
(* (recommendation_engine.py) and the Flask request handlers (app.py).     *)
(*                                                                         *)
(* Units.  GPA values are held in hundredths (3.5 -> 350), IELTS bands in  *)
(* tenths (6.5 -> 65), match scores in hundredths of a point               *)
(* (80.92 -> 8092); tuition, budget, test scores and ranks are the         *)
(* program's own integers.  Text is a sequence of one-character strings.   *)
(* Arithmetic is exact rational arithmetic; round(score, 2) is modelled as *)
(* round-half-even on the exact sum.                                       *)
(***************************************************************************)
EXTENDS Integers, Sequences, FiniteSets, TLC

VARIABLES universities, thr

vars == <<universities, thr>>

(***************************************************************************)
(* Bounds of the model.                                                    *)
(***************************************************************************)
MaxUniversities == 2
NumThreads == 2

Threads == 1..NumThreads

(***************************************************************************)
(* dict.get(key, default): a key that is not in the dict is held as        *)
(* Missing; every real numeric value of the model is >= 0.                 *)
(***************************************************************************)
Missing == -1
NoScore == -1

Get(value, default) == IF value = Missing THEN default ELSE value

Abs(x) == IF x < 0 THEN -x ELSE x
Max(a, b) == IF a >= b THEN a ELSE b

(***************************************************************************)
(* Text: str.lower() and the substring test `a in b`.                      *)
(***************************************************************************)
LowerChar(c) ==
  CASE c = "A" -> "a"
    [] c = "B" -> "b"
    [] c = "C" -> "c"
    [] c = "U" -> "u"
    [] c = "S" -> "s"
    [] c = "K" -> "k"
    [] OTHER -> c

Lower(s) == [i \in 1..Len(s) |-> LowerChar(s[i])]

IsSubstring(a, b) ==
  \E i \in 0..(Len(b) - Len(a)) : SubSeq(b, i + 1, i + Len(a)) = a

InList(x, items) == \E i \in 1..Len(items) : items[i] = x

\* The elements of `for x in s` over a str: its characters, as strings of length 1.
Chars(s) == [i \in 1..Len(s) |-> <<s[i]>>]

(***************************************************************************)
(* JSON values of a request body.  A number is [k, n]: k is the JSON/Python *)
(* kind ("absent" = key not in the dict) and n its value in the model's    *)
(* units.  A preference is [k, items, text]: a list holds its strings in   *)
(* items, a str its characters in text, an int is a non-zero number.       *)
(***************************************************************************)
Num(kind, n) == [k |-> kind, n |-> n]
Absent == Num("absent", 0)

PrefList(items) == [k |-> "list", items |-> items, text |-> <<>>]
PrefStr(text) == [k |-> "str", items |-> <<>>, text |-> text]
PrefInt == [k |-> "int", items |-> <<>>, text |-> <<>>]
PrefAbsent == [k |-> "absent", items |-> <<>>, text |-> <<>>]

\* float('inf'), the default budget of recommend
Infinity == 2147483647

\* user_profile.get(key, default)
ProfileGet(field, default) == IF field.k = "absent" THEN default ELSE field.n

\* user_profile.get('preferred_...', [])
PrefGet(pref) == IF pref.k = "absent" THEN PrefList(<<>>) ELSE pref

\* `is not None` in place of the truth value: an empty list counts as given.
TruthyNotNone(pref) == pref.k # "absent"

\* Python truth value of a preference: `if preferred_countries:` / `not countries`
Truthy(pref) ==
  CASE pref.k = "list" -> Len(pref.items) > 0
    [] pref.k = "str" -> Len(pref.text) > 0
    [] pref.k = "int" -> TRUE
    [] OTHER -> FALSE

(***************************************************************************)
(* The filters.  U is the dataset (self.universities); a list of           *)
(* universities is a sequence of references, i.e. of positions in U: the   *)
(* filters build new lists that share the dataset's record objects.        *)
(***************************************************************************)
KeepGpa(u, gpa) == gpa >= Get(u.gpa_min, 0)

filter_by_gpa(U, list, gpa) ==
  SelectSeq(list, LAMBDA r : KeepGpa(U[r], gpa))

\* Comparison the wrong way round.
KeepBudgetReversed(u, budget) == Get(u.tuition_usd, 0) >= budget

KeepBudget(u, budget) == Get(u.tuition_usd, 0) <= budget

filter_by_budget(U, list, budget) ==
  SelectSeq(list, LAMBDA r : KeepBudget(U[r], budget))

DefaultTolerance == 50
RecommendTolerance == 100

\* A symmetric window: the `or` clause dropped.
KeepTestScoreWindow(u, test_score, tolerance) ==
  Abs(Get(u.test_benchmark, 0) - test_score) <= tolerance

KeepTestScore(u, test_score, tolerance) ==
  \/ Abs(Get(u.test_benchmark, 0) - test_score) <= tolerance
  \/ test_score >= Get(u.test_benchmark, 0)

filter_by_test_score(U, list, test_score, tolerance) ==
  SelectSeq(list, LAMBDA r :
    KeepTestScore(U[r], test_score, Get(tolerance, DefaultTolerance)))

\* Strict comparison.
KeepIeltsStrict(u, ielts_score) == ielts_score > Get(u.ielts_min, 0)

KeepIelts(u, ielts_score) == ielts_score >= Get(u.ielts_min, 0)

filter_by_ielts(U, list, ielts_score) ==
  SelectSeq(list, LAMBDA r : KeepIelts(U[r], ielts_score))

\* u.get('country') in countries
KeepCountry(u, countries) ==
  CASE countries.k = "list" -> InList(u.country, countries.items)
    [] countries.k = "str" -> IsSubstring(u.country, countries.text)
    [] OTHER -> FALSE

filter_by_country(U, list, countries) ==
  IF ~Truthy(countries) THEN list
  ELSE SelectSeq(list, LAMBDA r : KeepCountry(U[r], countries))

\* The exception `x in 5` raises; "" when the call returns normally.
filter_by_country_raises(U, list, countries) ==
  IF Truthy(countries) /\ countries.k = "int" /\ Len(list) > 0
  THEN "argument of type 'int' is not iterable"
  ELSE ""

\* any(sector.lower() in top_sectors for sector in sectors)
KeepSectors(u, sectors) ==
  LET top_sectors == Lower(u.top_sectors)
      each == IF sectors.k = "str" THEN Chars(sectors.text) ELSE sectors.items
  IN \E i \in 1..Len(each) : IsSubstring(Lower(each[i]), top_sectors)

filter_by_sectors(U, list, sectors) ==
  IF ~Truthy(sectors) THEN list
  ELSE SelectSeq(list, LAMBDA r : KeepSectors(U[r], sectors))

\* The exception `for sector in 5` raises; "" when the call returns normally.
filter_by_sectors_raises(U, list, sectors) ==
  IF Truthy(sectors) /\ sectors.k = "int" /\ Len(list) > 0
  THEN "'int' object is not iterable"
  ELSE ""

(***************************************************************************)
(* calculate_match_score, in hundredths of a point.  Each of the two       *)
(* fractional sub-scores is a fraction [num, den]; the test and rank       *)
(* sub-scores are whole numbers of hundredths.                             *)
(***************************************************************************)
\* The ratio without its cap.
GpaPointsUncapped(gpa, gpa_competitive) ==
  IF gpa_competitive > 0
  THEN [num |-> 3000 * gpa, den |-> gpa_competitive]
  ELSE [num |-> 0, den |-> 1]

\* A ratio above the cap falls back to 1.0.
GpaPointsCapToOne(gpa, gpa_competitive) ==
  IF gpa_competitive > 0
  THEN IF 10 * gpa >= 11 * gpa_competitive
       THEN [num |-> 3000, den |-> 1]
       ELSE [num |-> 3000 * gpa, den |-> gpa_competitive]
  ELSE [num |-> 0, den |-> 1]

\* 100 * min(gpa / gpa_competitive, 1.1) * 30, when gpa_competitive > 0
GpaPoints(gpa, gpa_competitive) ==
  IF gpa_competitive > 0
  THEN IF 10 * gpa >= 11 * gpa_competitive
       THEN [num |-> 3300, den |-> 1]
       ELSE [num |-> 3000 * gpa, den |-> gpa_competitive]
  ELSE [num |-> 0, den |-> 1]

\* 100 * (1 - tuition / budget) * 25 if tuition <= budget else 0, when budget > 0
BudgetPoints(budget, tuition) ==
  IF budget > 0 /\ tuition <= budget
  THEN [num |-> 2500 * (budget - tuition), den |-> budget]
  ELSE [num |-> 0, den |-> 1]

\* 100 * max(0, 1 - abs(test_score - test_benchmark) / 200) * 20, when test_benchmark > 0
TestPoints(test_score, test_benchmark) ==
  IF test_benchmark > 0
  THEN 10 * Max(0, 200 - Abs(test_score - test_benchmark))
  ELSE 0

\* 100 * max(0, 1 - world_rank / 100) * 25
RankPoints(world_rank) == 25 * Max(0, 100 - world_rank)

\* round(whole + a + b, 2) in hundredths: the nearest integer, ties to even
RoundSum(whole, a, b) ==
  LET q == whole + (a.num \div a.den) + (b.num \div b.den)
      n == (a.num % a.den) * b.den + (b.num % b.den) * a.den
      d == a.den * b.den
      base == q + (n \div d)
      rem == n % d
  IN CASE 2 * rem > d -> base + 1
       [] 2 * rem = d -> IF base % 2 = 0 THEN base ELSE base + 1
       [] OTHER -> base

calculate_match_score(university, user_profile) ==
  LET gpa == ProfileGet(user_profile.gpa, 0)
      gpa_competitive == Get(university.gpa_competitive, 0)
      budget == ProfileGet(user_profile.budget, 0)
      tuition == Get(university.tuition_usd, 0)
      test_score == ProfileGet(user_profile.test_score, 0)
      test_benchmark == Get(university.test_benchmark, 0)
      world_rank == Get(university.world_rank, 100)
  IN RoundSum(TestPoints(test_score, test_benchmark) + RankPoints(world_rank),
              GpaPoints(gpa, gpa_competitive),
              BudgetPoints(budget, tuition))

(***************************************************************************)
(* rank_universities.  university.copy() gives the object that line 209    *)
(* writes match_score into: a fresh dict, not the dataset's record.        *)
(***************************************************************************)
\* No copy: the name is bound to the dataset's own record.
university_alias(r) == [fresh |-> FALSE, of |-> r]

university_copy(r) == [fresh |-> TRUE, of |-> r]

\* An ascending stable sort, reversed afterwards: equal keys end up reversed.
RECURSIVE SortAscending(_)
SortAscending(ranked) ==
  IF Len(ranked) <= 1 THEN ranked
  ELSE LET front == SortAscending(SubSeq(ranked, 1, Len(ranked) - 1))
           x == ranked[Len(ranked)]
           pos == Cardinality({i \in 1..Len(front) :
                                 front[i].rec.match_score <= x.rec.match_score})
       IN SubSeq(front, 1, pos) \o <<x>> \o SubSeq(front, pos + 1, Len(front))

SortAscendingReversed(ranked) ==
  LET asc == SortAscending(ranked)
  IN [i \in 1..Len(asc) |-> asc[Len(asc) + 1 - i]]

\* ranked.sort(key=match_score, reverse=True): stable, so equal keys keep their order.
RECURSIVE SortDescending(_)
SortDescending(ranked) ==
  IF Len(ranked) <= 1 THEN ranked
  ELSE LET front == SortDescending(SubSeq(ranked, 1, Len(ranked) - 1))
           x == ranked[Len(ranked)]
           \* x goes after every element whose score is >= its own
           pos == Cardinality({i \in 1..Len(front) :
                                 front[i].rec.match_score >= x.rec.match_score})
       IN SubSeq(front, 1, pos) \o <<x>> \o SubSeq(front, pos + 1, Len(front))

\* The list rank_universities returns: one scored record per input reference.
rank_universities(U, list, user_profile) ==
  SortDescending(
    [k \in 1..Len(list) |->
      [ref |-> list[k],
       rec |-> [U[list[k]] EXCEPT
                  !.match_score = calculate_match_score(U[list[k]], user_profile)]]])

\* The dataset after rank_universities: a record changes only if a write went to it.
rank_universities_dataset(U, list, user_profile) ==
  [i \in DOMAIN U |->
    IF \E k \in 1..Len(list) :
         university_copy(list[k]).of = i /\ ~university_copy(list[k]).fresh
    THEN [U[i] EXCEPT !.match_score = calculate_match_score(U[i], user_profile)]
    ELSE U[i]]

\* recommend, lines 243-259: the filters in their fixed order.
recommend_filters(U, list, user_profile) ==
  LET l1 == filter_by_gpa(U, list, ProfileGet(user_profile.gpa, 0))
      l2 == filter_by_budget(U, l1, ProfileGet(user_profile.budget, Infinity))
      l3 == filter_by_test_score(U, l2, ProfileGet(user_profile.test_score, 0),
                                 RecommendTolerance)
      l4 == filter_by_ielts(U, l3, ProfileGet(user_profile.ielts_score, 0))
      preferred_countries == PrefGet(user_profile.preferred_countries)
      l5 == IF Truthy(preferred_countries)
            THEN filter_by_country(U, l4, preferred_countries) ELSE l4
      preferred_sectors == PrefGet(user_profile.preferred_sectors)
      l6 == IF Truthy(preferred_sectors)
            THEN filter_by_sectors(U, l5, preferred_sectors) ELSE l5
      e5 == IF Truthy(preferred_countries)
            THEN filter_by_country_raises(U, l4, preferred_countries) ELSE ""
      e6 == IF Truthy(preferred_sectors)
            THEN filter_by_sectors_raises(U, l5, preferred_sectors) ELSE ""
  IN [list |-> l6, exc |-> IF e5 # "" THEN e5 ELSE e6]

(***************************************************************************)
(* POST /api/recommend: the validation of the request body, lines 101-140. *)
(* The result is the error text of the 400 response, "" when the body      *)
(* passes.  isinstance(x, (int, float)) holds of bool too.                 *)
(***************************************************************************)
IsIntOrFloat(field) == field.k \in {"int", "float", "bool"}
IsInt(field) == field.k \in {"int", "bool"}

EmptyBody(data) ==
  /\ data.gpa.k = "absent" /\ data.budget.k = "absent"
  /\ data.test_score.k = "absent" /\ data.ielts_score.k = "absent"
  /\ data.preferred_countries.k = "absent" /\ data.preferred_sectors.k = "absent"

Validate(data) ==
  IF EmptyBody(data) THEN "Request body must be JSON"
  ELSE IF \/ data.gpa.k = "absent" \/ data.budget.k = "absent"
          \/ data.test_score.k = "absent" \/ data.ielts_score.k = "absent"
  THEN "Missing required fields"
  ELSE IF ~IsIntOrFloat(data.gpa) \/ data.gpa.n < 0 \/ data.gpa.n > 400
  THEN "GPA must be a number between 0 and 4.0"
  ELSE IF ~IsIntOrFloat(data.budget) \/ data.budget.n < 0
  THEN "Budget must be a positive number"
  ELSE IF ~IsInt(data.test_score) \/ data.test_score.n < 400 \/ data.test_score.n > 1600
  THEN "Test score must be an integer between 400 and 1600"
  ELSE IF ~IsIntOrFloat(data.ielts_score) \/ data.ielts_score.n < 0
          \/ data.ielts_score.n > 90
  THEN "IELTS score must be a number between 0 and 9"
  ELSE ""

\* recommendations[:20]
TopN == 20
Min(a, b) == IF a <= b THEN a ELSE b

(***************************************************************************)
(* The dataset: records of universities.json.  match_score = NoScore says  *)
(* the record has no match_score key.                                      *)
(***************************************************************************)
University(name, country, gpa_min, gpa_competitive, tuition_usd, test_benchmark, ielts_min, world_rank, top_sectors) ==
  [name |-> name, country |-> country, gpa_min |-> gpa_min,
   gpa_competitive |-> gpa_competitive, tuition_usd |-> tuition_usd,
   test_benchmark |-> test_benchmark, ielts_min |-> ielts_min,
   world_rank |-> world_rank, top_sectors |-> top_sectors, match_score |-> NoScore]

US == <<"U", "S">>
UK == <<"U", "K">>

RecordPool ==
  { University("A", US, 300, 360, 30000, 1380, 65, 40, <<"A", "b">>),
    University("B", UK, 300, 360, 30000, 1380, 65, 40, <<"b", "C">>),
    University("C", UK, Missing, 300, Missing, 1500, Missing, 1, <<"C">>),
    University("D", US, 380, 390, 45000, 1550, 75, Missing, <<>>) }

Datasets == UNION {[1..n -> RecordPool] : n \in 0..MaxUniversities}

(***************************************************************************)
(* Request bodies.                                                         *)
(***************************************************************************)
Body(gpa, budget, test_score, ielts_score, preferred_countries, preferred_sectors) ==
  [gpa |-> gpa, budget |-> budget, test_score |-> test_score,
   ielts_score |-> ielts_score, preferred_countries |-> preferred_countries,
   preferred_sectors |-> preferred_sectors]

NoData == Body(Absent, Absent, Absent, Absent, PrefAbsent, PrefAbsent)

BaseBody ==
  Body(Num("float", 350), Num("int", 40000), Num("int", 1400), Num("float", 70),
       PrefAbsent, PrefAbsent)

StrongBody ==
  Body(Num("int", 400), Num("int", 50000), Num("int", 1600), Num("float", 80),
       PrefAbsent, PrefAbsent)

GpaValues ==
  { Absent, Num("str", 0), Num("null", 0), Num("float", -10), Num("float", 410),
    Num("bool", 1), Num("float", 250), Num("int", 400) }
BudgetValues ==
  { Absent, Num("str", 0), Num("int", -1), Num("int", 0), Num("int", 30000),
    Num("float", 25000) }
TestScoreValues ==
  { Absent, Num("str", 0), Num("float", 1400), Num("bool", 1), Num("int", 399),
    Num("int", 1601), Num("int", 1250), Num("int", 1500) }
IeltsValues ==
  { Absent, Num("str", 0), Num("float", -5), Num("float", 95), Num("float", 60),
    Num("float", 65),
    Num("int", 9 * 10) }
CountryPrefs ==
  { PrefAbsent, PrefList(<<>>), PrefList(<<US>>), PrefList(<<UK, US>>),
    PrefStr(UK), PrefInt }
SectorPrefs ==
  { PrefAbsent, PrefList(<<>>), PrefList(<<<<"B">>>>), PrefList(<<<<"s">>, <<"c">>>>),
    PrefStr(<<"a">>), PrefInt }

\* Bodies that differ from a valid body in at most one field, and the empty body.
Payloads ==
  {NoData}
  \cup {[b EXCEPT !.gpa = v] : b \in {BaseBody}, v \in GpaValues}
  \cup {[b EXCEPT !.budget = v] : b \in {BaseBody}, v \in BudgetValues}
  \cup {[b EXCEPT !.test_score = v] : b \in {BaseBody}, v \in TestScoreValues}
  \cup {[b EXCEPT !.ielts_score = v] : b \in {BaseBody}, v \in IeltsValues}
  \cup {[b EXCEPT !.preferred_countries = v] : b \in {BaseBody, StrongBody},
                                               v \in CountryPrefs}
  \cup {[b EXCEPT !.preferred_sectors = v] : b \in {BaseBody, StrongBody},
                                             v \in SectorPrefs}
  \cup {[b EXCEPT !.preferred_countries = PrefList(<<>>),
                  !.preferred_sectors = PrefList(<<>>)] : b \in {BaseBody}}

\* The bodies of the requests that run concurrently.
ConcurrentPayloads ==
  { BaseBody, StrongBody,
    [BaseBody EXCEPT !.gpa = Absent],
    [StrongBody EXCEPT !.preferred_countries = PrefList(<<UK>>)] }

(***************************************************************************)
(* State.  universities is the recommender's dataset; thr[t] is the call   *)
(* thread t is serving: its position pc, the operation op, the request     *)
(* body or profile data, the local list of universities (references into   *)
(* the dataset), the scored copies ranked, and the response.               *)
(***************************************************************************)
IdleThread ==
  [pc |-> "idle", op |-> "none", data |-> NoData, tolerance |-> Missing,
   list |-> <<>>, ranked |-> <<>>, score |-> NoScore,
   status |-> 0, error |-> "", exc |-> "", count |-> 0, called |-> FALSE]

AllRefs == [i \in 1..Len(universities) |-> i]

Init ==
  /\ universities \in Datasets
  /\ thr = [t \in Threads |-> IdleThread]

(***************************************************************************)
(* POST /api/recommend.                                                    *)
(***************************************************************************)
\* Lines 98-143 and 240: validate the body; a valid body enters
\* recommender.recommend, which copies the dataset's list.
RecommendRequest(t, data) ==
  /\ thr[t].pc = "idle"
  /\ thr' = [thr EXCEPT ![t] =
       IF Validate(data) # ""
       THEN [IdleThread EXCEPT !.pc = "responded", !.op = "recommend", !.data = data,
                               !.status = 400, !.error = Validate(data)]
       ELSE [IdleThread EXCEPT !.pc = "copied", !.op = "recommend", !.data = data,
                               !.called = TRUE, !.list = AllRefs]]
  /\ UNCHANGED universities

\* Lines 243-259: the filters; an exception leaves through `except Exception as e`
\* of the handler (lines 155-159), whose body carries str(e).
RecommendFilter(t) ==
  /\ thr[t].pc = "copied"
  /\ LET out == recommend_filters(universities, thr[t].list, thr[t].data)
     IN thr' = [thr EXCEPT ![t] =
          IF out.exc # ""
          THEN [@ EXCEPT !.pc = "responded", !.list = <<>>, !.status = 500,
                         !.exc = out.exc, !.error = out.exc]
          ELSE [@ EXCEPT !.pc = "filtered", !.list = out.list]]
  /\ UNCHANGED universities

\* Lines 262 and 205-214, then lines 146-154: rank, truncate, respond.
RecommendRank(t) ==
  /\ thr[t].pc = "filtered"
  /\ LET ranked == rank_universities(universities, thr[t].list, thr[t].data)
     IN thr' = [thr EXCEPT ![t] =
          [@ EXCEPT !.pc = "responded", !.ranked = ranked, !.status = 200,
                    !.count = Min(Len(ranked), TopN)]]
  /\ universities' = rank_universities_dataset(universities, thr[t].list, thr[t].data)

(***************************************************************************)
(* GET /api/universities, lines 48-72.  get_all_universities returns the   *)
(* dataset's own list; each query filter builds a new list.  An absent     *)
(* query parameter is <<>> (country) or Missing.                           *)
(***************************************************************************)
get_universities(U, country, max_tuition, min_rank, max_rank) ==
  LET l0 == [i \in 1..Len(U) |-> i]
      l1 == IF country # <<>>
            THEN SelectSeq(l0, LAMBDA r : U[r].country = country) ELSE l0
      l2 == IF max_tuition # Missing
            THEN SelectSeq(l1, LAMBDA r : Get(U[r].tuition_usd, 0) <= max_tuition)
            ELSE l1
      l3 == IF min_rank # Missing
            THEN SelectSeq(l2, LAMBDA r : Get(U[r].world_rank, 999) >= min_rank)
            ELSE l2
  IN IF max_rank # Missing
     THEN SelectSeq(l3, LAMBDA r : Get(U[r].world_rank, 999) <= max_rank)
     ELSE l3

GetUniversities(t, country, max_tuition, min_rank, max_rank) ==
  /\ thr[t].pc = "idle"
  /\ LET out == get_universities(universities, country, max_tuition, min_rank, max_rank)
     IN thr' = [thr EXCEPT ![t] =
          [IdleThread EXCEPT !.pc = "responded", !.op = "universities", !.list = out,
                             !.status = 200, !.count = Len(out)]]
  /\ UNCHANGED universities

(***************************************************************************)
(* Direct calls of the recommender's operations on the whole dataset.      *)
(***************************************************************************)
CallFilterTestScore(t, test_score, tolerance) ==
  /\ thr[t].pc = "idle"
  /\ thr' = [thr EXCEPT ![t] =
       [IdleThread EXCEPT !.pc = "responded", !.op = "filter_by_test_score",
          !.data = [NoData EXCEPT !.test_score = Num("int", test_score)],
          !.tolerance = tolerance,
          !.list = filter_by_test_score(universities, AllRefs, test_score, tolerance)]]
  /\ UNCHANGED universities

CallFilterCountry(t, countries) ==
  /\ thr[t].pc = "idle"
  /\ thr' = [thr EXCEPT ![t] =
       [IdleThread EXCEPT !.pc = "responded", !.op = "filter_by_country",
          !.data = [NoData EXCEPT !.preferred_countries = countries],
          !.list = filter_by_country(universities, AllRefs, countries)]]
  /\ UNCHANGED universities

CallFilterSectors(t, sectors) ==
  /\ thr[t].pc = "idle"
  /\ thr' = [thr EXCEPT ![t] =
       [IdleThread EXCEPT !.pc = "responded", !.op = "filter_by_sectors",
          !.data = [NoData EXCEPT !.preferred_sectors = sectors],
          !.list = filter_by_sectors(universities, AllRefs, sectors)]]
  /\ UNCHANGED universities

CallScore(t, r, user_profile) ==
  /\ thr[t].pc = "idle"
  /\ r \in 1..Len(universities)
  /\ thr' = [thr EXCEPT ![t] =
       [IdleThread EXCEPT !.pc = "responded", !.op = "calculate_match_score",
          !.data = user_profile, !.list = <<r>>,
          !.score = calculate_match_score(universities[r], user_profile)]]
  /\ UNCHANGED universities

\* The caller takes the response; the thread is free again.
Return(t) ==
  /\ thr[t].pc = "responded"
  /\ thr' = [thr EXCEPT ![t] = IdleThread]
  /\ UNCHANGED universities

(***************************************************************************)
(* Inputs of the direct calls and of the query.                            *)
(***************************************************************************)
TestScores == {1250, 1400, 1450, 1500, 1600}
Tolerances == {Missing, 0, 50, 100}
ListPrefs(prefs) == {p \in prefs : p.k \in {"absent", "list"}}
ValidPayloads == {b \in Payloads : Validate(b) = ""}
ProfilesOf(bodies) ==
  {b \in bodies : Validate(b) = "" /\ b.preferred_countries.k = "absent"
                                   /\ b.preferred_sectors.k = "absent"}
QueryCountries == {<<>>, US}
QueryTuitions == {Missing, 30000}
QueryRanks == {Missing, 40}

\* Requests are served one at a time.
Next ==
  \/ \E data \in Payloads : RecommendRequest(1, data)
  \/ RecommendFilter(1)
  \/ RecommendRank(1)
  \/ \E country \in QueryCountries, max_tuition \in QueryTuitions,
        min_rank \in QueryRanks, max_rank \in QueryRanks :
        GetUniversities(1, country, max_tuition, min_rank, max_rank)
  \/ \E test_score \in TestScores, tolerance \in Tolerances :
        CallFilterTestScore(1, test_score, tolerance)
  \/ \E countries \in ListPrefs(CountryPrefs) : CallFilterCountry(1, countries)
  \/ \E sectors \in ListPrefs(SectorPrefs) : CallFilterSectors(1, sectors)
  \/ \E r \in 1..MaxUniversities, p \in ProfilesOf(Payloads) : CallScore(1, r, p)
  \/ Return(1)

Spec == Init /\ [][Next]_vars

\* The threads of a multi-threaded host serve requests concurrently.
NextConcurrent ==
  \E t \in Threads :
    \/ \E data \in ConcurrentPayloads : RecommendRequest(t, data)
    \/ RecommendFilter(t)
    \/ RecommendRank(t)
    \/ GetUniversities(t, US, Missing, Missing, 40)
    \/ CallFilterTestScore(t, 1400, Missing)
    \/ CallFilterCountry(t, PrefList(<<UK>>))
    \/ CallFilterSectors(t, PrefList(<<<<"c">>>>))
    \/ \E r \in 1..MaxUniversities : CallScore(t, r, BaseBody)
    \/ Return(t)

SpecConcurrent == Init /\ [][NextConcurrent]_vars

(***************************************************************************)
(* calculate_match_score on its own: one record, a profile from a grid.    *)
(***************************************************************************)
ScoreCompetitive == {Missing, 50, 300, 360, 400}
ScoreTuitions == {Missing, 0, 30000, 40000, 50000}
ScoreBenchmarks == {Missing, 1380, 1500, 1600}
ScoreRanks == {Missing, 1, 40, 100, 150}
ScoreGpas == {0, 100, 250, 330, 350, 380, 396, 400}
ScoreBudgets == {0, 30000, 40000}
ScoreTests == {400, 1400, 1500, 1600}

ScoreRecords ==
  { University("R", US, 0, gc, tu, tb, 0, wr, <<>>) :
      gc \in ScoreCompetitive, tu \in ScoreTuitions,
      tb \in ScoreBenchmarks, wr \in ScoreRanks }

ScoreProfile(gpa, budget, test_score) ==
  Body(Num("float", gpa), Num("int", budget), Num("int", test_score),
       Num("float", 70), PrefAbsent, PrefAbsent)

ScoreProfiles ==
  { ScoreProfile(g, b, ts) : g \in ScoreGpas, b \in ScoreBudgets, ts \in ScoreTests }

InitScore ==
  /\ universities \in {<<rec>> : rec \in ScoreRecords}
  /\ thr = [t \in Threads |-> IdleThread]

NextScore ==
  \/ \E p \in ScoreProfiles : CallScore(1, 1, p)
  \/ Return(1)

SpecScore == InitScore /\ [][NextScore]_vars

(***************************************************************************)
(* Properties.                                                             *)
(***************************************************************************)
\* A recommend request that was answered with its recommendations.
Served(t) ==
  thr[t].op = "recommend" /\ thr[t].pc = "responded" /\ thr[t].status = 200

ScoreCalled(t) ==
  thr[t].op = "calculate_match_score" /\ thr[t].pc = "responded"

Refs(list) == {list[k] : k \in 1..Len(list)}

\* The record satisfies the data model's ranges.
DataModelRecord(u) ==
  u.gpa_competitive > 0 /\ u.tuition_usd >= 0 /\ u.world_rank >= 1
  /\ u.test_benchmark >= 0

\* The profile is one the request layer lets through.
ValidatedProfile(data) ==
  /\ data.gpa.k \in {"int", "float"} /\ 0 <= data.gpa.n /\ data.gpa.n <= 400
  /\ data.budget.k \in {"int", "float"} /\ data.budget.n >= 0
  /\ data.test_score.k = "int" /\ 400 <= data.test_score.n
  /\ data.test_score.n <= 1600

C2_WithinBudgetAndGpa ==
  \A t \in Threads :
    Served(t) =>
      \A k \in 1..Len(thr[t].ranked) :
        /\ Get(thr[t].ranked[k].rec.tuition_usd, 0) <= thr[t].data.budget.n
        /\ Get(thr[t].ranked[k].rec.gpa_min, 0) <= thr[t].data.gpa.n

\* recommend returned a record while the dataset held one over budget and
\* one above the profile's GPA.
C2_Witness ==
  \E t \in Threads :
    /\ Served(t) /\ Len(thr[t].ranked) > 0
    /\ \E i \in 1..Len(universities) :
         Get(universities[i].tuition_usd, 0) > thr[t].data.budget.n
    /\ \E i \in 1..Len(universities) :
         Get(universities[i].gpa_min, 0) > thr[t].data.gpa.n

\* The request body is malformed: a required field missing, of the wrong
\* type or out of range, or a preference that is not a list of strings.
\* A JSON boolean is taken as a number here, as isinstance takes it.
MalformedBody(data) ==
  \/ ~IsIntOrFloat(data.gpa) \/ data.gpa.n < 0 \/ data.gpa.n > 400
  \/ ~IsIntOrFloat(data.budget) \/ data.budget.n < 0
  \/ ~IsInt(data.test_score) \/ data.test_score.n < 400
  \/ data.test_score.n > 1600
  \/ ~IsIntOrFloat(data.ielts_score) \/ data.ielts_score.n < 0
  \/ data.ielts_score.n > 90
  \/ data.preferred_countries.k \notin {"absent", "list"}
  \/ data.preferred_sectors.k \notin {"absent", "list"}

\* C3: a malformed POST /api/recommend body is answered with a rejection
\* and recommender.recommend is never invoked for it.
C3_MalformedRejected ==
  \A t \in Threads :
    (thr[t].op = "recommend" /\ MalformedBody(thr[t].data))
    => (~thr[t].called /\ thr[t].status = 400)

\* C4: no operation, in any interleaving, changes the dataset: its length,
\* order and field values stay as loaded and no record gains a match_score.
C4_DatasetReadOnly ==
  [][/\ universities' = universities
     /\ \A i \in 1..Len(universities') : universities'[i].match_score = NoScore]_vars

\* One thread has its scored copies while another is inside recommend.
C4_Witness ==
  \E t1, t2 \in Threads :
    /\ t1 # t2
    /\ Served(t1) /\ Len(thr[t1].ranked) > 0
    /\ thr[t2].op = "recommend" /\ thr[t2].pc \in {"copied", "filtered"}

\* The body with its empty preference lists taken out.
WithoutEmptyPrefs(data) ==
  [data EXCEPT
     !.preferred_countries = IF @ = PrefList(<<>>) THEN PrefAbsent ELSE @,
     !.preferred_sectors = IF @ = PrefList(<<>>) THEN PrefAbsent ELSE @]

\* C5: recommend with an empty preferred_countries / preferred_sectors
\* returns the same ordered list as with the field absent, and
\* filter_by_country / filter_by_sectors with an empty or absent preference
\* return every input record in order.
C5_EmptyPreferenceNoOp ==
  \A t \in Threads :
    /\ (/\ Served(t)
        /\ \/ thr[t].data.preferred_countries = PrefList(<<>>)
           \/ thr[t].data.preferred_sectors = PrefList(<<>>))
       => thr[t].ranked =
           rank_universities(universities,
             recommend_filters(universities, AllRefs,
                               WithoutEmptyPrefs(thr[t].data)).list,
             WithoutEmptyPrefs(thr[t].data))
    /\ (/\ thr[t].pc = "responded"
        /\ thr[t].op \in {"filter_by_country", "filter_by_sectors"}
        /\ thr[t].data.preferred_countries \in {PrefAbsent, PrefList(<<>>)}
        /\ thr[t].data.preferred_sectors \in {PrefAbsent, PrefList(<<>>)})
       => thr[t].list = AllRefs

\* recommend answered a body with an empty preference list, and a non-empty
\* preference would have removed a record.
C5_Witness ==
  \E t \in Threads :
    /\ Served(t) /\ Len(thr[t].ranked) > 0
    /\ thr[t].data.preferred_countries = PrefList(<<>>)
    /\ thr[t].data.preferred_sectors = PrefList(<<>>)
    /\ \E k \in 1..Len(thr[t].ranked) : thr[t].ranked[k].rec.country # US

\* C6: with gpa_competitive > 0, raising the profile's gpa and nothing
\* else never lowers calculate_match_score.
C6_MonotoneInGpa ==
  \A t \in Threads :
    (ScoreCalled(t) /\ universities[thr[t].list[1]].gpa_competitive > 0)
    => \A g \in ScoreGpas :
         g >= thr[t].data.gpa.n =>
           calculate_match_score(universities[thr[t].list[1]],
                                 [thr[t].data EXCEPT !.gpa.n = g]) >= thr[t].score

\* A score that a higher gpa raises, below the cap of the ratio.
C6_Witness ==
  \E t \in Threads :
    /\ ScoreCalled(t) /\ universities[thr[t].list[1]].gpa_competitive > 0
    /\ \E g \in ScoreGpas :
         /\ g > thr[t].data.gpa.n
         /\ calculate_match_score(universities[thr[t].list[1]],
                                  [thr[t].data EXCEPT !.gpa.n = g]) > thr[t].score
    /\ thr[t].data.gpa.n > universities[thr[t].list[1]].gpa_competitive

\* The position of reference r in a list without repetitions.
PositionIn(list, r) == CHOOSE k \in 1..Len(list) : list[k] = r

\* C7: in the list recommend returns, match_score never increases from one
\* position to the next, and records of equal match_score keep the order
\* they had in the input list.
C7_DescendingStable ==
  \A t \in Threads :
    Served(t) =>
      \A i, j \in 1..Len(thr[t].ranked) :
        i < j =>
          /\ thr[t].ranked[i].rec.match_score >= thr[t].ranked[j].rec.match_score
          /\ thr[t].ranked[i].rec.match_score = thr[t].ranked[j].rec.match_score
             => PositionIn(thr[t].list, thr[t].ranked[i].ref)
                  < PositionIn(thr[t].list, thr[t].ranked[j].ref)

\* Two different universities with the same match_score were returned.
C7_Witness ==
  \E t \in Threads :
    /\ Served(t)
    /\ \E i, j \in 1..Len(thr[t].ranked) :
         /\ i < j
         /\ thr[t].ranked[i].rec.match_score = thr[t].ranked[j].rec.match_score
         /\ thr[t].ranked[i].rec.name # thr[t].ranked[j].rec.name

\* A well-formed body: every preference is absent or a list of strings.
WellFormedPrefs(data) ==
  /\ data.preferred_countries.k \in {"absent", "list"}
  /\ data.preferred_sectors.k \in {"absent", "list"}

\* The four mandatory predicates and the two optional ones.
MatchesProfile(u, data) ==
  /\ data.gpa.n >= Get(u.gpa_min, 0)
  /\ Get(u.tuition_usd, 0) <= data.budget.n
  /\ \/ Abs(Get(u.test_benchmark, 0) - data.test_score.n) <= 100
     \/ data.test_score.n >= Get(u.test_benchmark, 0)
  /\ data.ielts_score.n >= Get(u.ielts_min, 0)
  /\ data.preferred_countries.items # <<>>
       => u.country \in Refs(data.preferred_countries.items)
  /\ data.preferred_sectors.items # <<>>
       => \E kw \in Refs(data.preferred_sectors.items) :
            IsSubstring(Lower(kw), Lower(u.top_sectors))

\* C8: recommend returns every dataset record that satisfies the mandatory
\* predicates and the non-empty preferences, each exactly once, as a copy
\* equal to the original plus its match_score, and nothing else: no
\* truncation.
C8_FullSetOfMatches ==
  \A t \in Threads :
    (Served(t) /\ WellFormedPrefs(thr[t].data)) =>
      /\ \A i \in 1..Len(universities) :
           Cardinality({k \in 1..Len(thr[t].ranked) : thr[t].ranked[k].ref = i})
             = IF MatchesProfile(universities[i], thr[t].data) THEN 1 ELSE 0
      /\ \A k \in 1..Len(thr[t].ranked) :
           LET u == universities[thr[t].ranked[k].ref]
               c == thr[t].ranked[k].rec
           IN /\ [c EXCEPT !.match_score = NoScore] = u
              /\ c.match_score = calculate_match_score(u, thr[t].data)

\* A request with preferred countries for which one record of the dataset
\* is returned and another one is not.
C8_Witness ==
  \E t \in Threads :
    /\ Served(t) /\ WellFormedPrefs(thr[t].data)
    /\ Len(thr[t].ranked) > 0 /\ Len(thr[t].ranked) < Len(universities)
    /\ thr[t].data.preferred_countries.items # <<>>

\* C9: filter_by_test_score excludes a record exactly when
\* test_benchmark - test_score > tolerance (a missing benchmark is 0), so a
\* benchmark at or below the score is never excluded; the tolerance is 50
\* by default and 100 inside recommend.
C9_TestScoreFilter ==
  \A t \in Threads :
    /\ (thr[t].op = "filter_by_test_score" /\ thr[t].pc = "responded") =>
         LET tol == IF thr[t].tolerance = Missing THEN 50 ELSE thr[t].tolerance
         IN thr[t].list =
              SelectSeq(AllRefs, LAMBDA i :
                ~(Get(universities[i].test_benchmark, 0)
                    - thr[t].data.test_score.n > tol))
    /\ (thr[t].op = "recommend" /\ thr[t].pc = "filtered") =>
         \A i \in 1..Len(universities) :
           /\ i \in Refs(thr[t].list) =>
                Get(universities[i].test_benchmark, 0) - thr[t].data.test_score.n <= 100
           /\ (/\ WellFormedPrefs(thr[t].data)
               /\ MatchesProfile([universities[i] EXCEPT !.test_benchmark = 0],
                                 thr[t].data)
               /\ Get(universities[i].test_benchmark, 0)
                    - thr[t].data.test_score.n <= 100)
              => i \in Refs(thr[t].list)

\* A call with the default tolerance that keeps a record whose benchmark is
\* more than 50 below the score and drops one more than 50 above it.
C9_Witness ==
  \E t \in Threads :
    /\ thr[t].op = "filter_by_test_score" /\ thr[t].pc = "responded"
    /\ thr[t].tolerance = Missing
    /\ \E i \in Refs(thr[t].list) :
         thr[t].data.test_score.n - Get(universities[i].test_benchmark, 0) > 50
    /\ \E i \in 1..Len(universities) :
         /\ i \notin Refs(thr[t].list)
         /\ Get(universities[i].test_benchmark, 0) - thr[t].data.test_score.n > 50
         /\ Get(universities[i].test_benchmark, 0) - thr[t].data.test_score.n <= 100

\* C10: when an exception is raised in a handler, the response is a generic
\* failure whose body does not carry the exception's message.
C10_GenericFailure ==
  \A t \in Threads :
    thr[t].exc # "" => (thr[t].status = 500 /\ thr[t].error # thr[t].exc)

====
